---- MODULE Spec2Model ----
(***************************************************************************)
(* A model of src/src/mine.rs: the parallel search Miner::find_hash_par,    *)
(* the deadline computation Miner::get_cutoff, the bus selection           *)
(* Miner::find_bus and the loop of Miner::mine that calls them.            *)
(*                                                                         *)
(* A nonce is written <<p, k>> and stands for the 64-bit value             *)
(*   floor(u64::MAX / cores) * p + k                                       *)
(* (the start of partition p, plus k increments); <<0, 0>> is the nonce 0. *)
(* A hash is written <<challenge, p, k>>; <<0, 0, 0>> is Hash::default().  *)
(***************************************************************************)
EXTENDS Integers, Sequences, FiniteSets, TLC

\* ------------------------------------------------------------------ bounds
\* Processing units core_affinity::get_core_ids() reports (ids 0 .. NumUnits-1).
NumUnits == 2
\* Largest difficulty the modelled hash function yields.
MaxDifficulty == 2
\* Number of challenges the round may be given.
NumChallenges == 2
\* Values of cutoff_time (seconds) handed to find_hash_par: the deadline has
\* passed when the threads start, or lies ahead of them.  A thread's timer is only
\* ever compared with cutoff_time.
CutoffTimes == {0, 1}
\* Threads start no new loop iteration once this many hashes were counted; the
\* second bound is for a round with a single used thread (cores = 1), which is
\* followed over more than one sampling stride.
MaxHashes == 4
MaxSoloHashes == 101

\* i64 and u64 are modelled IntBits wide (two's complement), as TLC's integers
\* cannot hold 64-bit values; saturation and casts act at the modelled limits.
IntBits == 12
\* Number of bus accounts (ore_api::consts::BUS_COUNT, set outside this repository).
BUS_COUNT == 3
\* Largest rewards value of a bus account in a snapshot.
MaxRewards == 9

CoreIds == 0 .. (NumUnits - 1)

\* The values of args.cores: none, fewer than, as many as and more than the units;
\* and 18, for which floor(u64::MAX / cores) is a multiple of the sampling stride,
\* so that every thread reaches a stride check with its first nonce.
RequestedCores == (0 .. (NumUnits + 1)) \cup {18}

\* The bound on counted hashes of the round at hand.
HashBudget(c) == IF c = 1 THEN MaxSoloHashes ELSE MaxHashes

VARIABLES
    \* find_hash_par: arguments
    challenge, cutoff_time, cores, min_difficulty,
    \* find_hash_par: shared atomics
    global_best_difficulty, global_total_hashes,
    \* find_hash_par: per-thread locals (functions over CoreIds)
    \* (elapsed[i] is timer.elapsed().as_secs() of thread i's timer, which is
    \* only ever compared with cutoff_time and is not followed beyond it)
    pc, elapsed, nonce, best_nonce, best_difficulty, best_hash, seen,
    \* find_hash_par: the coordinator's join loop and its return value
    joined, join_nonce, join_difficulty, join_hash, solution,
    \* history: the shared best has met min_difficulty at some time; and, per
    \* thread, whether it had when the thread last sampled the shared best
    ever_met, met_at_load,
    \* get_cutoff: proof.last_hash_at, args.buffer_time, clock.unix_timestamp,
    \* the position in the call and the value returned
    gc_last_hash_at, gc_buffer_time, gc_unix_timestamp, gc_pc, gc_cutoff,
    \* find_bus: position, whether get_multiple_accounts returned Ok, the accounts
    \* it returned, the loop index, the loop's locals, the number of RPC reads made
    \* and the bus returned (an index into BUS_ADDRESSES)
    fb_pc, fb_read_ok, fb_accounts, fb_idx, top_bus_balance, top_bus, fb_reads, fb_bus,
    \* Miner::mine: the position in the loop, the number of the round (loop
    \* iteration), args.buffer_time, the variable kept across iterations (last_hash_at), and the
    \* locals of one iteration (the fetched proof.last_hash_at and
    \* config.last_reset_at, the cutoff, the solution, the instruction list, the
    \* compute budget and the attempt counter)
    m_pc, m_round, m_buffer_time, m_last_hash_at,
    m_proof_last_hash_at, m_last_reset_at, m_cutoff_time, m_solution,
    ixs, compute_budget, attempts,
    \* Miner::mine: what BuildIxs observed (whether should_reset was true, the
    \* clock it read and the number drawn, -1 when no number was drawn) and the
    \* bus find_bus returned
    m_should_reset, m_reset_clock, m_draw, m_bus,
    \* history of the round at hand: the arguments of each send_and_confirm call,
    \* the lines written to stderr, the number of send_and_confirm calls; and of the
    \* whole run: the number of fetches, searches and bus selections made
    sent, log, n_sends, n_fetch, n_search, n_bus

searchVars == <<challenge, cutoff_time, cores, min_difficulty,
                global_best_difficulty, global_total_hashes,
                pc, elapsed, nonce, best_nonce, best_difficulty, best_hash, seen,
                joined, join_nonce, join_difficulty, join_hash, solution,
                ever_met, met_at_load>>

cutoffVars == <<gc_last_hash_at, gc_buffer_time, gc_unix_timestamp, gc_pc, gc_cutoff>>

busVars == <<fb_pc, fb_read_ok, fb_accounts, fb_idx, top_bus_balance, top_bus,
             fb_reads, fb_bus>>

mineVars == <<m_pc, m_round, m_buffer_time, m_last_hash_at,
              m_proof_last_hash_at, m_last_reset_at, m_cutoff_time, m_solution,
              ixs, compute_budget, attempts,
              m_should_reset, m_reset_clock, m_draw, m_bus,
              sent, log, n_sends, n_fetch, n_search, n_bus>>

vars == <<searchVars, cutoffVars, busVars, mineVars>>

\* ------------------------------------------------------- external: drillx
DefaultHash == <<0, 0, 0>>
ZeroNonce == <<0, 0>>

\* drillx::hash_with_memory is outside the repository: a deterministic function
\* of (challenge, nonce) that may fail.  HashOk says whether it returns Ok.
HashOk(ch, n) == (n[2] + 2 * ch) % 4 # 3

\* hx.difficulty() of the hash of (ch, n).
Difficulty(ch, n) ==
    ((2 * ch - 1) * n[1] + ch + n[2] * (ch + n[1]) + 2 * (ch - 1)) % (MaxDifficulty + 1)

\* ------------------------------------------------------- nonce arithmetic
\* u64::MAX = 18446744073709551615 in base 10^4, most significant limb first.
U64MaxLimbs == <<1844, 6744, 737, 955, 1615>>

\* The remainder carried into limb j of the long division of u64::MAX by c.
RECURSIVE Carry(_, _)
Carry(j, c) ==
    IF j = 1 THEN 0 ELSE (Carry(j - 1, c) * 10000 + U64MaxLimbs[j - 1]) % c

\* u64::MAX.saturating_div(c) modulo 100: the last limb of the quotient, mod 100.
PartitionMod100(c) ==
    ((Carry(Len(U64MaxLimbs), c) * 10000 + U64MaxLimbs[Len(U64MaxLimbs)]) \div c) % 100

\* nonce % 100 for the nonce n = <<p, k>> under the request for c cores.
NonceMod100(n, c) == (PartitionMod100(c) * n[1] + n[2]) % 100

\* nonce += 1
NextNonce(n) == <<n[1], n[2] + 1>>


\* ------------------------------------------------- find_hash_par: threads
\* FetchAdd as a load and a store of the loaded value: the increment is lost.
FetchAddLost(v) == v

\* global_total_hashes.fetch_add(1, Relaxed): the value the counter takes.
FetchAdd(v) == v + 1

\* Unused with the comparison off by one: core id `cores` is still used.
UnusedOffByOne(i) == i > cores

\* "Return if core should not be used": (i.id as u64).ge(&cores).
Unused(i) == i >= cores

\* ShouldBreak on the deadline alone.
ShouldBreakOnTime(secs, sampled) == secs >= cutoff_time

\* ShouldBreak with the two conditions joined by "or".
ShouldBreakEither(secs, sampled) ==
    secs >= cutoff_time \/ sampled >= min_difficulty

\* The loop's break: the deadline has passed and the sampled best meets the minimum.
ShouldBreak(secs, sampled) == secs >= cutoff_time /\ sampled >= min_difficulty

\* Improves with ties included: a later nonce of equal difficulty replaces the best.
ImprovesOrTies(i) ==
    /\ HashOk(challenge, nonce[i])
    /\ Difficulty(challenge, nonce[i]) >= best_difficulty[i]

\* Improves without the test of the hash's result: a failed hash is compared too.
ImprovesUnchecked(i) ==
    Difficulty(challenge, nonce[i]) > best_difficulty[i]

\* The hash of thread i's current nonce improves on the thread's best.
Improves(i) ==
    /\ HashOk(challenge, nonce[i])
    /\ Difficulty(challenge, nonce[i]) > best_difficulty[i]

\* The value a thread returns to the coordinator's join.
ThreadResult(i) ==
    IF Unused(i) THEN <<ZeroNonce, 0, DefaultHash>>
    ELSE <<best_nonce[i], best_difficulty[i], best_hash[i]>>

\* After the fetch_add of an iteration: the sampling stride, else nonce += 1.
AfterAdd(i) ==
    IF NonceMod100(nonce[i], cores) = 0
    THEN /\ pc' = [pc EXCEPT ![i] = "check"]
         /\ UNCHANGED nonce
    ELSE /\ pc' = [pc EXCEPT ![i] = "loop"]
         /\ nonce' = [nonce EXCEPT ![i] = NextNonce(nonce[i])]

coordVars == <<joined, join_nonce, join_difficulty, join_hash, solution>>
argVars == <<challenge, cutoff_time, cores, min_difficulty>>
bestVars == <<best_nonce, best_difficulty, best_hash>>

\* The thread starts: it returns at once for an unused core, else it starts its
\* timer and takes the first nonce of its partition.
Start(i) ==
    /\ pc[i] = "spawned"
    /\ IF Unused(i)
       THEN /\ pc' = [pc EXCEPT ![i] = "done"]
            /\ UNCHANGED <<elapsed, nonce, bestVars>>
       ELSE /\ pc' = [pc EXCEPT ![i] = "loop"]
            /\ elapsed' = [elapsed EXCEPT ![i] = 0]
            /\ nonce' = [nonce EXCEPT ![i] = <<i, 0>>]
            /\ best_nonce' = [best_nonce EXCEPT ![i] = <<i, 0>>]
            /\ best_difficulty' = [best_difficulty EXCEPT ![i] = 0]
            /\ best_hash' = [best_hash EXCEPT ![i] = DefaultHash]
    /\ UNCHANGED <<mineVars, cutoffVars, busVars, argVars, global_best_difficulty, global_total_hashes, seen,
                   coordVars, ever_met, met_at_load>>

\* One iteration whose hash fails or does not improve the thread's best: nothing
\* is recorded, the hash is counted and the nonce advances.
HashMiss(i) ==
    /\ pc[i] = "loop"
    /\ global_total_hashes < HashBudget(cores)
    /\ ~Improves(i)
    /\ global_total_hashes' = FetchAdd(global_total_hashes)
    /\ AfterAdd(i)
    /\ UNCHANGED <<mineVars, cutoffVars, busVars, argVars, global_best_difficulty, elapsed, bestVars, seen,
                   coordVars, ever_met, met_at_load>>

\* An iteration whose hash improves the thread's best: the thread records it and
\* loads the shared best; it goes on to store only if its difficulty is larger.
HashLoad(i) ==
    /\ pc[i] = "loop"
    /\ global_total_hashes < HashBudget(cores)
    /\ Improves(i)
    /\ best_nonce' = [best_nonce EXCEPT ![i] = nonce[i]]
    /\ best_difficulty' = [best_difficulty EXCEPT ![i] = Difficulty(challenge, nonce[i])]
    /\ best_hash' = [best_hash EXCEPT ![i] = <<challenge, nonce[i][1], nonce[i][2]>>]
    /\ pc' = [pc EXCEPT ![i] =
                IF Difficulty(challenge, nonce[i]) > global_best_difficulty
                THEN "store" ELSE "add"]
    /\ UNCHANGED <<mineVars, cutoffVars, busVars, argVars, global_best_difficulty, global_total_hashes, elapsed,
                   nonce, seen, coordVars, ever_met, met_at_load>>

\* global_best_difficulty.store(difficulty, Relaxed), after the load of HashLoad.
Store(i) ==
    /\ pc[i] = "store"
    /\ global_best_difficulty' = best_difficulty[i]
    /\ ever_met' = (ever_met \/ best_difficulty[i] >= min_difficulty)
    /\ pc' = [pc EXCEPT ![i] = "add"]
    /\ UNCHANGED <<mineVars, cutoffVars, busVars, argVars, global_total_hashes, elapsed, nonce, bestVars, seen,
                   coordVars, met_at_load>>

\* The fetch_add of an iteration that recorded a new best.
Add(i) ==
    /\ pc[i] = "add"
    /\ global_total_hashes' = FetchAdd(global_total_hashes)
    /\ AfterAdd(i)
    /\ UNCHANGED <<mineVars, cutoffVars, busVars, argVars, global_best_difficulty, elapsed, bestVars, seen,
                   coordVars, ever_met, met_at_load>>

\* On the sampling stride: the thread loads the shared best.
CheckLoad(i) ==
    /\ pc[i] = "check"
    /\ seen' = [seen EXCEPT ![i] = global_best_difficulty]
    /\ met_at_load' = [met_at_load EXCEPT ![i] = ever_met]
    /\ pc' = [pc EXCEPT ![i] = "check_time"]
    /\ UNCHANGED <<mineVars, cutoffVars, busVars, argVars, global_best_difficulty, global_total_hashes, elapsed,
                   nonce, bestVars, coordVars, ever_met>>

\* On the sampling stride: the thread reads its timer and breaks or goes on.
CheckTime(i) ==
    /\ pc[i] = "check_time"
    /\ IF ShouldBreak(elapsed[i], seen[i])
       THEN /\ pc' = [pc EXCEPT ![i] = "done"]
            /\ UNCHANGED nonce
       ELSE /\ pc' = [pc EXCEPT ![i] = "loop"]
            /\ nonce' = [nonce EXCEPT ![i] = NextNonce(nonce[i])]
    /\ UNCHANGED <<mineVars, cutoffVars, busVars, argVars, global_best_difficulty, global_total_hashes, elapsed,
                   bestVars, seen, coordVars, ever_met, met_at_load>>

\* A second of wall-clock time passes: the timers of the running threads that
\* are not yet past the deadline read one second more.
Running(i) == pc[i] \notin {"spawned", "done"}

Tick ==
    /\ \E i \in CoreIds : Running(i) /\ elapsed[i] < cutoff_time
    /\ elapsed' = [i \in CoreIds |->
                      IF Running(i) /\ elapsed[i] < cutoff_time
                      THEN elapsed[i] + 1 ELSE elapsed[i]]
    /\ UNCHANGED <<mineVars, cutoffVars, busVars, argVars, global_best_difficulty,
                   global_total_hashes, pc, nonce, bestVars, seen, coordVars,
                   ever_met, met_at_load>>

\* -------------------------------------------- find_hash_par: coordinator
\* Better with ties included: the last handle holding the maximum wins.
BetterOrTies(d, best) == d >= best

\* Better with the comparison inverted.
BetterInverted(d, best) == d < best

\* The reduction's comparison: difficulty > best_difficulty.
Better(d, best) == d > best

\* Join without waiting for the thread: the result is read while it may still run.
JoinEarly ==
    /\ joined < NumUnits
    /\ pc[joined] # "spawned"
    /\ LET r == ThreadResult(joined) IN
         IF Better(r[2], join_difficulty)
         THEN /\ join_nonce' = r[1]
              /\ join_difficulty' = r[2]
              /\ join_hash' = r[3]
         ELSE UNCHANGED <<join_nonce, join_difficulty, join_hash>>
    /\ joined' = joined + 1
    /\ UNCHANGED <<mineVars, cutoffVars, busVars, argVars, global_best_difficulty,
                   global_total_hashes, pc, elapsed, nonce, bestVars, seen, solution,
                   ever_met, met_at_load>>

\* h.join() of the next handle, in core order, and the reduction step on its result.
Join ==
    /\ joined < NumUnits
    /\ pc[joined] = "done"
    /\ LET r == ThreadResult(joined) IN
         IF Better(r[2], join_difficulty)
         THEN /\ join_nonce' = r[1]
              /\ join_difficulty' = r[2]
              /\ join_hash' = r[3]
         ELSE UNCHANGED <<join_nonce, join_difficulty, join_hash>>
    /\ joined' = joined + 1
    /\ UNCHANGED <<mineVars, cutoffVars, busVars, argVars, global_best_difficulty, global_total_hashes, pc,
                   elapsed, nonce, bestVars, seen, solution, ever_met, met_at_load>>

\* Solution::new(best_hash.d, best_nonce.to_le_bytes())
Return ==
    /\ joined = NumUnits
    /\ solution = <<>>
    /\ solution' = <<join_hash, join_nonce>>
    /\ UNCHANGED <<mineVars, cutoffVars, busVars, argVars, global_best_difficulty, global_total_hashes, pc,
                   elapsed, nonce, bestVars, seen, joined, join_nonce, join_difficulty,
                   join_hash, ever_met, met_at_load>>

\* The state find_hash_par is in once its threads are spawned.
SearchInit ==
    /\ challenge \in 1 .. NumChallenges
    /\ cutoff_time \in CutoffTimes
    /\ cores \in RequestedCores
    /\ min_difficulty \in 0 .. (MaxDifficulty + 1)
    /\ global_best_difficulty = 0
    /\ global_total_hashes = 0
    /\ pc = [i \in CoreIds |-> "spawned"]
    /\ elapsed = [i \in CoreIds |-> 0]
    /\ nonce = [i \in CoreIds |-> ZeroNonce]
    /\ best_nonce = [i \in CoreIds |-> ZeroNonce]
    /\ best_difficulty = [i \in CoreIds |-> 0]
    /\ best_hash = [i \in CoreIds |-> DefaultHash]
    /\ seen = [i \in CoreIds |-> 0]
    /\ joined = 0
    /\ join_nonce = ZeroNonce
    /\ join_difficulty = 0
    /\ join_hash = DefaultHash
    /\ solution = <<>>
    /\ ever_met = (min_difficulty = 0)
    /\ met_at_load = [i \in CoreIds |-> FALSE]

\* find_hash_par is not running.
SearchIdle ==
    /\ challenge = 1
    /\ cutoff_time = 0
    /\ cores = 0
    /\ min_difficulty = 0
    /\ global_best_difficulty = 0
    /\ global_total_hashes = 0
    /\ pc = [i \in CoreIds |-> "spawned"]
    /\ elapsed = [i \in CoreIds |-> 0]
    /\ nonce = [i \in CoreIds |-> ZeroNonce]
    /\ best_nonce = [i \in CoreIds |-> ZeroNonce]
    /\ best_difficulty = [i \in CoreIds |-> 0]
    /\ best_hash = [i \in CoreIds |-> DefaultHash]
    /\ seen = [i \in CoreIds |-> 0]
    /\ joined = 0
    /\ join_nonce = ZeroNonce
    /\ join_difficulty = 0
    /\ join_hash = DefaultHash
    /\ solution = <<>>
    /\ ever_met = TRUE
    /\ met_at_load = [i \in CoreIds |-> FALSE]

\* get_cutoff is not running.
CutoffIdle ==
    /\ gc_last_hash_at = 0
    /\ gc_buffer_time = 0
    /\ gc_unix_timestamp = 0
    /\ gc_pc = "idle"
    /\ gc_cutoff = 0

\* find_bus is not running.
BusIdle ==
    /\ fb_pc = "idle"
    /\ fb_read_ok = FALSE
    /\ fb_accounts = <<>>
    /\ fb_idx = 0
    /\ top_bus_balance = 0
    /\ top_bus = 0
    /\ fb_reads = 0
    /\ fb_bus = 0

\* Miner::mine is not running.
MineIdle ==
    /\ m_pc = "idle"
    /\ m_round = 0
    /\ m_buffer_time = 0
    /\ m_last_hash_at = 0
    /\ m_proof_last_hash_at = 0
    /\ m_last_reset_at = 0
    /\ m_cutoff_time = 0
    /\ m_solution = <<>>
    /\ ixs = <<>>
    /\ compute_budget = 0
    /\ attempts = 0
    /\ m_should_reset = FALSE
    /\ m_reset_clock = 0
    /\ m_draw = 0 - 1
    /\ m_bus = 0
    /\ sent = <<>>
    /\ log = <<>>
    /\ n_sends = 0
    /\ n_fetch = 0
    /\ n_search = 0
    /\ n_bus = 0

Thread(i) ==
    \/ Start(i)
    \/ HashMiss(i)
    \/ HashLoad(i)
    \/ Store(i)
    \/ Add(i)
    \/ CheckLoad(i)
    \/ CheckTime(i)

\* One call of find_hash_par.
Init == SearchInit /\ CutoffIdle /\ BusIdle /\ MineIdle

Next ==
    \/ \E i \in CoreIds : Thread(i)
    \/ Tick
    \/ Join
    \/ Return

Spec == Init /\ [][Next]_vars

\* The scheduler runs every thread that can run, the coordinator and the clock.
FairSpec ==
    /\ Spec
    /\ \A i \in CoreIds : WF_vars(Thread(i))
    /\ WF_vars(Tick)
    /\ WF_vars(Join)
    /\ WF_vars(Return)

\* -------------------------------------------------------------- get_cutoff
I64_MAX == 2 ^ (IntBits - 1) - 1
I64_MIN == 0 - 2 ^ (IntBits - 1)
U64_MAX == 2 ^ IntBits - 1

\* i64::saturating_add and i64::saturating_sub
Saturate(x) == IF x > I64_MAX THEN I64_MAX ELSE IF x < I64_MIN THEN I64_MIN ELSE x
saturating_add(a, b) == Saturate(a + b)
saturating_sub(a, b) == Saturate(a - b)

\* `u as i64`: the same bits, read as a signed value.
AsI64(u) == IF u > I64_MAX THEN u - 2 ^ IntBits ELSE u

\* `x as u64`: the same bits, read as an unsigned value.
AsU64(x) == IF x < 0 THEN x + 2 ^ IntBits ELSE x

\* i64::max
MaxOf(a, b) == IF a >= b THEN a ELSE b

\* The value get_cutoff computes from proof.last_hash_at, buffer_time and the
\* clock's unix_timestamp.
get_cutoff(last_hash_at, buffer_time, unix_timestamp) ==
    AsU64(MaxOf(saturating_sub(
                    saturating_sub(saturating_add(last_hash_at, 60), AsI64(buffer_time)),
                    unix_timestamp),
                0))

\* Values of proof.last_hash_at and clock.unix_timestamp (i64), and of
\* args.buffer_time (u64), the calls are made with.
TimestampValues == {0, 1, 940, 1000, 1040, 1055, 1056, 1100}
BufferValues == {0, 1, 5, 55, 60, 61, 1000, I64_MAX, I64_MAX + 1, U64_MAX}

\* The call: the arguments are bound.
CutoffCall ==
    /\ gc_pc = "idle"
    /\ \E l \in TimestampValues, b \in BufferValues :
          /\ gc_last_hash_at' = l
          /\ gc_buffer_time' = b
    /\ gc_pc' = "clock"
    /\ UNCHANGED <<mineVars, searchVars, busVars, gc_unix_timestamp, gc_cutoff>>

\* get_clock(&self.rpc_client).await
CutoffClock ==
    /\ gc_pc = "clock"
    /\ \E t \in TimestampValues : gc_unix_timestamp' = t
    /\ gc_pc' = "compute"
    /\ UNCHANGED <<mineVars, searchVars, busVars, gc_last_hash_at, gc_buffer_time, gc_cutoff>>

\* The saturating chain, and the return.
CutoffReturn ==
    /\ gc_pc = "compute"
    /\ gc_cutoff' = get_cutoff(gc_last_hash_at, gc_buffer_time, gc_unix_timestamp)
    /\ gc_pc' = "done"
    /\ UNCHANGED <<mineVars, searchVars, busVars, gc_last_hash_at, gc_buffer_time, gc_unix_timestamp>>

CutoffInit == SearchIdle /\ CutoffIdle /\ BusIdle /\ MineIdle

CutoffNext ==
    \/ CutoffCall
    \/ CutoffClock
    \/ CutoffReturn

\* One call of get_cutoff.
CutoffSpec == CutoffInit /\ [][CutoffNext]_vars

\* ---------------------------------------------------------------- find_bus
\* An entry of the vector get_multiple_accounts returns: None, or Some(account)
\* whose data Bus::try_from_bytes decodes (ok) or rejects.
NoAccount == [some |-> FALSE, ok |-> FALSE, id |-> 0, rewards |-> 0]
BadAccount == [some |-> TRUE, ok |-> FALSE, id |-> 0, rewards |-> 0]

\* The entries the read may return for BUS_ADDRESSES[j]: the bus account at that
\* address carries the id j.
AccountsAt(j) ==
    {NoAccount, BadAccount}
        \cup {[some |-> TRUE, ok |-> TRUE, id |-> j, rewards |-> r] : r \in 0 .. MaxRewards}

\* The vectors a successful get_multiple_accounts(&BUS_ADDRESSES) may return.
Snapshots ==
    {a \in [1 .. BUS_COUNT -> UNION {AccountsAt(j) : j \in 0 .. (BUS_COUNT - 1)}] :
        \A j \in 1 .. BUS_COUNT : a[j] \in AccountsAt(j - 1)}

\* Exceeds with ties included.
ExceedsOrTies(rewards, top) == rewards >= top

\* bus.rewards > top_bus_balance
Exceeds(rewards, top) == rewards > top

\* gen_range with the upper end included.
RandomRangeInclusive == 0 .. BUS_COUNT

\* rand::thread_rng().gen_range(0..BUS_COUNT)
RandomRange == 0 .. (BUS_COUNT - 1)

\* get_multiple_accounts returns Ok(accounts): the loop's locals are set.
ReadAccountsOk ==
    /\ fb_pc = "call"
    /\ \E a \in Snapshots : fb_accounts' = a
    /\ fb_read_ok' = TRUE
    /\ fb_reads' = fb_reads + 1
    /\ top_bus_balance' = 0
    /\ top_bus' = 0
    /\ fb_idx' = 1
    /\ fb_pc' = "loop"
    /\ UNCHANGED <<mineVars, searchVars, cutoffVars, fb_bus>>

\* One pass of `for account in accounts`.
VisitAccount ==
    /\ fb_pc = "loop"
    /\ fb_idx <= Len(fb_accounts)
    /\ LET account == fb_accounts[fb_idx] IN
         IF account.some /\ account.ok /\ Exceeds(account.rewards, top_bus_balance)
         THEN /\ top_bus_balance' = account.rewards
              /\ top_bus' = account.id
         ELSE UNCHANGED <<top_bus_balance, top_bus>>
    /\ fb_idx' = fb_idx + 1
    /\ UNCHANGED <<mineVars, searchVars, cutoffVars, fb_pc, fb_read_ok, fb_accounts, fb_reads, fb_bus>>

\* return top_bus
ReturnTopBus ==
    /\ fb_pc = "loop"
    /\ fb_idx > Len(fb_accounts)
    /\ fb_bus' = top_bus
    /\ fb_pc' = "returned"
    /\ UNCHANGED <<mineVars, searchVars, cutoffVars, fb_read_ok, fb_accounts, fb_idx,
                   top_bus_balance, top_bus, fb_reads>>

\* get_multiple_accounts returns Err: a random bus is returned.
ReadAccountsErr ==
    /\ fb_pc = "call"
    /\ fb_read_ok' = FALSE
    /\ fb_reads' = fb_reads + 1
    /\ \E i \in RandomRange : fb_bus' = i
    /\ fb_pc' = "returned"
    /\ UNCHANGED <<mineVars, searchVars, cutoffVars, fb_accounts, fb_idx, top_bus_balance, top_bus>>

\* Miner::mine: the mine instruction is pushed with the bus find_bus returned, and
\* the submission loop is entered.
PushMineIx ==
    /\ fb_pc = "returned"
    /\ fb_pc' = "submit"
    /\ UNCHANGED <<mineVars, searchVars, cutoffVars, fb_read_ok, fb_accounts, fb_idx,
                   top_bus_balance, top_bus, fb_reads, fb_bus>>

BusInit ==
    /\ SearchIdle
    /\ CutoffIdle
    /\ MineIdle
    /\ fb_pc = "call"
    /\ fb_read_ok = FALSE
    /\ fb_accounts = <<>>
    /\ fb_idx = 0
    /\ top_bus_balance = 0
    /\ top_bus = 0
    /\ fb_reads = 0
    /\ fb_bus = 0

BusNext ==
    \/ ReadAccountsOk
    \/ VisitAccount
    \/ ReturnTopBus
    \/ ReadAccountsErr
    \/ PushMineIx

\* One call of find_bus from Miner::mine.
BusSpec == BusInit /\ [][BusNext]_vars

\* -------------------------------------------------------------- Miner::mine
\* Loop iterations (rounds) followed.
MaxRounds == 2

MAX_RETRIES == 3

\* ore_api::consts::EPOCH_DURATION (seconds), set outside this repository.
EPOCH_DURATION == 60

\* Values of proof.last_hash_at and config.last_reset_at the fetch returns, of the
\* clock read by get_cutoff and should_reset, of args.buffer_time, and of the
\* number rand::thread_rng().gen_range(0..100) draws.
RoundTimes == {1000, 1040}
ResetTimes == {1000, 1001}
MineClockValues == {1055, 1056}
MineBufferValues == {0, 5}
DrawValues == {0, 1, 99}

\* Values find_hash_par returns: Solution::new(best_hash.d, best_nonce).
Solutions ==
    {<<DefaultHash, ZeroNonce>>} \cup {<<<<1, p, 0>>, <<p, 0>>>> : p \in CoreIds}

\* The instructions ore_api::instruction builds.
AuthIx == <<"auth">>
ResetIx == <<"reset">>
MineIx(bus, sol) == <<"mine", bus, sol>>

\* should_reset with a buffer of 6 seconds.
should_resetOffByOne(last_reset_at, unix_timestamp) ==
    saturating_sub(saturating_add(last_reset_at, EPOCH_DURATION), 6) <= unix_timestamp

\* config.last_reset_at.saturating_add(EPOCH_DURATION).saturating_sub(5)
\*     .le(&clock.unix_timestamp)
should_reset(last_reset_at, unix_timestamp) ==
    saturating_sub(saturating_add(last_reset_at, EPOCH_DURATION), 5) <= unix_timestamp

\* gen_range(0..100).eq(&0)
DrawSucceeds(d) == d = 0

\* The budget left as it was when the reset instruction is added.
ResetBudgetSame(b) == b

\* compute_budget += 100_000
ResetBudget(b) == b + 100000

\* AfterFailure with the comparison off by one: a fourth attempt is due.
AfterFailureLate(a) == IF a > MAX_RETRIES THEN "aborted" ELSE "submit"

\* AfterFailure going on to the next iteration of the outer loop.
AfterFailureContinue(a) == IF a >= MAX_RETRIES THEN "fetch" ELSE "submit"

\* After a failed attempt: `return` once attempts >= MAX_RETRIES, else the
\* while loop goes round.
AfterFailure(a) == IF a >= MAX_RETRIES THEN "aborted" ELSE "submit"

\* The arguments with the budget raised on every retry.
SendArgsRaised == <<ixs, compute_budget + 100000 * attempts>>

\* The arguments of send_and_confirm(&ixs, ComputeBudget::Fixed(compute_budget), false).
SendArgs == <<ixs, compute_budget>>

roundLocals == <<m_proof_last_hash_at, m_last_reset_at, m_cutoff_time, m_solution,
                 ixs, compute_budget, attempts, m_should_reset, m_reset_clock,
                 m_draw, m_bus>>
mineHistory == <<sent, log, n_sends, n_fetch, n_search, n_bus>>

\* "Fetch proof": config and proof are read, last_hash_at is updated.
FetchState ==
    /\ m_pc = "fetch"
    /\ m_round < MaxRounds
    /\ \E l \in RoundTimes, r \in ResetTimes :
          /\ m_proof_last_hash_at' = l
          /\ m_last_reset_at' = r
          /\ m_last_hash_at' = l
    /\ m_round' = m_round + 1
    /\ n_fetch' = n_fetch + 1
    /\ sent' = <<>>
    /\ log' = <<>>
    /\ n_sends' = 0
    /\ m_pc' = "cutoff"
    /\ UNCHANGED <<searchVars, cutoffVars, busVars, m_buffer_time, m_cutoff_time,
                   m_solution, ixs, compute_budget, attempts, m_should_reset,
                   m_reset_clock, m_draw, m_bus, n_search, n_bus>>

\* "Calculate cutoff time": self.get_cutoff(proof, args.buffer_time).await
CalcCutoff ==
    /\ m_pc = "cutoff"
    /\ \E t \in MineClockValues :
          m_cutoff_time' = get_cutoff(m_proof_last_hash_at, m_buffer_time, t)
    /\ m_pc' = "search"
    /\ UNCHANGED <<searchVars, cutoffVars, busVars, m_round, m_buffer_time,
                   m_last_hash_at, m_proof_last_hash_at, m_last_reset_at, m_solution,
                   ixs, compute_budget, attempts, m_should_reset, m_reset_clock,
                   m_draw, m_bus, mineHistory>>

\* "Run drillx": Self::find_hash_par(...).await
RunSearch ==
    /\ m_pc = "search"
    /\ \E sol \in Solutions : m_solution' = sol
    /\ n_search' = n_search + 1
    /\ m_pc' = "build"
    /\ UNCHANGED <<searchVars, cutoffVars, busVars, m_round, m_buffer_time,
                   m_last_hash_at, m_proof_last_hash_at, m_last_reset_at,
                   m_cutoff_time, ixs, compute_budget, attempts, m_should_reset,
                   m_reset_clock, m_draw, m_bus, sent, log, n_sends, n_fetch, n_bus>>

\* "Build instruction set": the auth instruction, the budget, and the reset
\* instruction when should_reset holds and the number drawn is 0 (no number is
\* drawn when should_reset is false: && does not evaluate its right side).
BuildIxs ==
    /\ m_pc = "build"
    /\ \E t \in MineClockValues :
         LET sr == should_reset(m_last_reset_at, t) IN
           \E d \in (IF sr THEN DrawValues ELSE {0 - 1}) :
              /\ m_should_reset' = sr
              /\ m_reset_clock' = t
              /\ m_draw' = d
              /\ IF sr /\ DrawSucceeds(d)
                 THEN /\ compute_budget' = ResetBudget(500000)
                      /\ ixs' = Append(<<AuthIx>>, ResetIx)
                 ELSE /\ compute_budget' = 500000
                      /\ ixs' = <<AuthIx>>
    /\ m_pc' = "bus"
    /\ UNCHANGED <<searchVars, cutoffVars, busVars, m_round, m_buffer_time,
                   m_last_hash_at, m_proof_last_hash_at, m_last_reset_at,
                   m_cutoff_time, m_solution, attempts, m_bus, mineHistory>>

\* "Build mine ix": the mine instruction with the bus find_bus returns is pushed,
\* and attempts is set to 0.
BuildMineIx ==
    /\ m_pc = "bus"
    /\ \E b \in RandomRange :
          /\ m_bus' = b
          /\ ixs' = Append(ixs, MineIx(b, m_solution))
    /\ n_bus' = n_bus + 1
    /\ attempts' = 0
    /\ m_pc' = "submit"
    /\ UNCHANGED <<searchVars, cutoffVars, busVars, m_round, m_buffer_time,
                   m_last_hash_at, m_proof_last_hash_at, m_last_reset_at,
                   m_cutoff_time, m_solution, compute_budget, m_should_reset,
                   m_reset_clock, m_draw, sent, log, n_sends, n_fetch, n_search>>

\* while attempts < MAX_RETRIES: self.send_and_confirm(...) is called.
Send ==
    /\ m_pc = "submit"
    /\ attempts < MAX_RETRIES
    /\ sent' = Append(sent, SendArgs)
    /\ n_sends' = n_sends + 1
    /\ m_pc' = "sent"
    /\ UNCHANGED <<searchVars, cutoffVars, busVars, m_round, m_buffer_time,
                   m_last_hash_at, roundLocals, log, n_fetch, n_search, n_bus>>

\* The result is Ok(_): break; the iteration ends, its locals are dropped and the
\* outer loop goes round.
ConfirmOk ==
    /\ m_pc = "sent"
    /\ m_pc' = "fetch"
    /\ m_proof_last_hash_at' = 0
    /\ m_last_reset_at' = 0
    /\ m_cutoff_time' = 0
    /\ m_solution' = <<>>
    /\ ixs' = <<>>
    /\ compute_budget' = 0
    /\ attempts' = 0
    /\ m_should_reset' = FALSE
    /\ m_reset_clock' = 0
    /\ m_draw' = 0 - 1
    /\ m_bus' = 0
    /\ sent' = <<>>
    /\ UNCHANGED <<searchVars, cutoffVars, busVars, m_round, m_buffer_time,
                   m_last_hash_at, log, n_sends, n_fetch, n_search, n_bus>>

\* The result is Err(e): attempts += 1, the attempt is logged, and at MAX_RETRIES
\* the abort is logged and mine returns.
ConfirmErr ==
    /\ m_pc = "sent"
    /\ attempts' = attempts + 1
    /\ m_pc' = AfterFailure(attempts + 1)
    /\ log' = IF AfterFailure(attempts + 1) = "submit"
              THEN Append(log, <<"Attempt", attempts + 1>>)
              ELSE Append(Append(log, <<"Attempt", attempts + 1>>),
                          <<"Max retries reached", 0>>)
    /\ UNCHANGED <<searchVars, cutoffVars, busVars, m_round, m_buffer_time,
                   m_last_hash_at, m_proof_last_hash_at, m_last_reset_at,
                   m_cutoff_time, m_solution, ixs, compute_budget, m_should_reset,
                   m_reset_clock, m_draw, m_bus, sent, n_sends, n_fetch, n_search,
                   n_bus>>

\* Miner::mine is about to enter its loop: last_hash_at = 0.
MineInit ==
    /\ SearchIdle
    /\ CutoffIdle
    /\ BusIdle
    /\ m_pc = "fetch"
    /\ m_round = 0
    /\ m_buffer_time \in MineBufferValues
    /\ m_last_hash_at = 0
    /\ m_proof_last_hash_at = 0
    /\ m_last_reset_at = 0
    /\ m_cutoff_time = 0
    /\ m_solution = <<>>
    /\ ixs = <<>>
    /\ compute_budget = 0
    /\ attempts = 0
    /\ m_should_reset = FALSE
    /\ m_reset_clock = 0
    /\ m_draw = 0 - 1
    /\ m_bus = 0
    /\ sent = <<>>
    /\ log = <<>>
    /\ n_sends = 0
    /\ n_fetch = 0
    /\ n_search = 0
    /\ n_bus = 0

MineNext ==
    \/ FetchState
    \/ CalcCutoff
    \/ RunSearch
    \/ BuildIxs
    \/ BuildMineIx
    \/ Send
    \/ ConfirmOk
    \/ ConfirmErr

\* The loop of Miner::mine.
MineSpec == MineInit /\ [][MineNext]_vars

\* ------------------------------------------------------------------ claims
Active == {i \in CoreIds : i < cores}
Returned == solution # <<>>
ZeroCandidate == <<ZeroNonce, 0, DefaultHash>>

\* C1: within one round the shared global best difficulty never decreases: no
\* step of any thread replaces it by a smaller value.
GlobalBestNeverDecreases ==
    [][global_best_difficulty' >= global_best_difficulty]_vars

\* C2: when cores > 0, the candidate find_hash_par returns has a difficulty at
\* least the final local best of every thread; its nonce and hash are those of a
\* thread whose local best is that maximum, or the zero candidate when no
\* thread's local best exceeds 0.
ReductionCorrect ==
    (Returned /\ cores > 0) =>
        /\ \A i \in CoreIds : join_difficulty >= ThreadResult(i)[2]
        /\ solution = <<join_hash, join_nonce>>
        /\ IF \A i \in CoreIds : ThreadResult(i)[2] = 0
           THEN <<join_nonce, join_difficulty, join_hash>> = ZeroCandidate
           ELSE \E i \in Active :
                    /\ \A j \in CoreIds : best_difficulty[i] >= ThreadResult(j)[2]
                    /\ <<join_nonce, join_difficulty, join_hash>> = ThreadResult(i)

\* Two used threads returned different positive difficulties, the later-joined
\* one the larger, and the search has returned.
ReductionWitness ==
    /\ Returned
    /\ Active = CoreIds
    /\ best_difficulty[0] > 0
    /\ best_difficulty[1] > best_difficulty[0]

\* C3: a used thread is out of its loop only when its elapsed time is at least
\* the deadline and the global best it read is at least min_difficulty.
BreakOnlyWhenBoth ==
    \A i \in Active :
        pc[i] = "done" => (elapsed[i] >= cutoff_time /\ seen[i] >= min_difficulty)

\* A thread that was past the deadline at its first stride check (cutoff_time = 0)
\* went on hashing, and left the loop at a later stride check.
BreakPastDeadlineWitness ==
    \E i \in Active :
        /\ pc[i] = "done"
        /\ cutoff_time = 0
        /\ min_difficulty > 0
        /\ nonce[i][2] >= 100

\* C4: a thread that samples the shared best at a stride check after the shared
\* best has met min_difficulty, and then finds the deadline passed, stops at that
\* check.
StopsAtNextCheck ==
    [][\A i \in CoreIds :
          (/\ pc[i] = "check_time"
           /\ met_at_load[i]
           /\ elapsed[i] >= cutoff_time
           /\ pc'[i] # pc[i]) => pc'[i] = "done"]_vars

\* C5: a thread exists for each available unit and for no other; a thread whose
\* unit index is >= cores returns the zero candidate in its first step, without
\* hashing or touching the shared counters; with more cores requested than units
\* every thread is used, the coordinator is never left waiting once the threads
\* have stopped, and the search returns the reduction of the threads' results.
OversubscriptionHarmless ==
    /\ DOMAIN pc = CoreIds
    /\ joined <= NumUnits
    /\ \A i \in CoreIds :
          i >= cores => /\ pc[i] \in {"spawned", "done"}
                        /\ ThreadResult(i) = ZeroCandidate
                        /\ nonce[i] = ZeroNonce
    /\ Active = {} =>
          (global_total_hashes = 0 /\ global_best_difficulty = 0)
    /\ cores > NumUnits =>
          /\ Active = CoreIds
          /\ (\A i \in CoreIds : pc[i] = "done") =>
                (Returned \/ ENABLED Join \/ ENABLED Return)
          /\ Returned =>
                /\ joined = NumUnits
                /\ \A i \in CoreIds : join_difficulty >= best_difficulty[i]
                /\ \/ <<join_nonce, join_difficulty, join_hash>> = ZeroCandidate
                   \/ \E i \in CoreIds :
                        <<join_nonce, join_difficulty, join_hash>> = ThreadResult(i)

\* More cores were requested than there are units, and the search has returned a
\* candidate of positive difficulty.
OversubscriptionWitness ==
    cores > NumUnits /\ Returned /\ join_difficulty > 0

\* C6: an invocation produces its result once and never changes it; with
\* cores = 0 every thread is unused, nothing is hashed, and find_hash_par returns
\* the default candidate (nonce 0, difficulty 0, default hash) whatever
\* min_difficulty and cutoff_time are.  It does not hang: until it has returned
\* some step can be taken, and every step advances Progress, which is at most
\* 2 * NumUnits + 1.
Progress ==
    Cardinality({i \in CoreIds : pc[i] = "done"}) + joined + (IF Returned THEN 1 ELSE 0)

ZeroCoresReturnsDefault ==
    /\ [](cores = 0 =>
            /\ \A i \in CoreIds : pc[i] \in {"spawned", "done"}
            /\ global_total_hashes = 0
            /\ Returned =>
                  /\ solution = <<DefaultHash, ZeroNonce>>
                  /\ join_difficulty = 0
            /\ Returned \/ ENABLED Next)
    /\ [][Returned => solution' = solution]_vars
    /\ [][cores = 0 => Progress' = Progress + 1]_vars

\* No core was requested, min_difficulty and cutoff_time are positive, and the
\* search has returned.
ZeroCoresWitness ==
    cores = 0 /\ min_difficulty > 0 /\ cutoff_time > 0 /\ Returned

\* C7: the shared hash count is the number of loop iterations the used threads
\* have counted so far (no increment is lost), it never decreases, and every
\* iteration a thread counts raises it by exactly one.
Counted(i) ==
    IF pc[i] = "spawned" \/ i >= cores THEN 0
    ELSE nonce[i][2] + (IF pc[i] \in {"check", "check_time", "done"} THEN 1 ELSE 0)

RECURSIVE SumCounted(_)
SumCounted(S) ==
    IF S = {} THEN 0
    ELSE LET i == CHOOSE x \in S : TRUE IN Counted(i) + SumCounted(S \ {i})

TotalHashesExact ==
    /\ [](global_total_hashes = SumCounted(CoreIds))
    /\ [][\/ global_total_hashes' = global_total_hashes
          \/ global_total_hashes' = global_total_hashes + 1]_vars

\* Both threads are used and each has counted hashes.
TotalHashesWitness ==
    /\ Active = CoreIds
    /\ \A i \in CoreIds : Counted(i) >= 2
    /\ global_total_hashes >= 5


\* C8: get_cutoff returns max(0, last_hash_at + 60 - buffer_time - current_time)
\* for all inputs.
CutoffIsClampedDifference ==
    gc_pc = "done" =>
        gc_cutoff = MaxOf(0, gc_last_hash_at + 60 - gc_buffer_time - gc_unix_timestamp)

\* C9 as stated: after a successful read find_bus returns the id of the first
\* decodable account whose rewards are the largest in the snapshot, whatever the
\* snapshot.
Decoded(j) == fb_accounts[j].some /\ fb_accounts[j].ok

FirstMax(j) ==
    /\ Decoded(j)
    /\ \A k \in 1 .. BUS_COUNT : Decoded(k) => fb_accounts[k].rewards <= fb_accounts[j].rewards
    /\ \A k \in 1 .. (j - 1) :
          Decoded(k) => fb_accounts[k].rewards < fb_accounts[j].rewards

BusIsFirstMaxAlways ==
    (fb_pc \in {"returned", "submit"} /\ fb_read_ok) =>
        \E j \in 1 .. BUS_COUNT : FirstMax(j) /\ fb_bus = fb_accounts[j].id

\* C9 as amended: after a successful read, if some decodable account has rewards
\* above 0, find_bus returns the id of the first decodable account holding the
\* largest rewards; otherwise it returns bus 0, whether or not the entry of bus 0
\* is present and decodable.
BusIsFirstPositiveMax ==
    (fb_pc \in {"returned", "submit"} /\ fb_read_ok) =>
        IF \E j \in 1 .. BUS_COUNT : Decoded(j) /\ fb_accounts[j].rewards > 0
        THEN \E j \in 1 .. BUS_COUNT : FirstMax(j) /\ fb_bus = fb_accounts[j].id
        ELSE fb_bus = 0

\* The read succeeded, the entry of bus 0 is missing, every other account
\* decodes with rewards 0, and find_bus has returned bus 0.
BusZeroRewardsWitness ==
    /\ fb_pc = "returned"
    /\ fb_read_ok
    /\ fb_accounts[1] = NoAccount
    /\ \A j \in 2 .. BUS_COUNT : Decoded(j) /\ fb_accounts[j].rewards = 0
    /\ fb_bus = 0

\* C10: when the batched read fails, find_bus returns after that single read,
\* without visiting any account, an index in 0 .. BUS_COUNT-1, and the caller goes
\* on to the submission.
BusFallbackInRange ==
    /\ [](fb_pc \in {"returned", "submit"} /\ ~fb_read_ok =>
            /\ fb_bus \in 0 .. (BUS_COUNT - 1)
            /\ fb_reads = 1
            /\ fb_idx = 0)
    /\ [][fb_pc = "returned" => fb_pc' = "submit"]_vars

\* The read failed, the last bus was drawn and the caller is at the submission.
BusFallbackWitness ==
    fb_pc = "submit" /\ ~fb_read_ok /\ fb_bus = BUS_COUNT - 1

\* C11: a round makes at most MAX_RETRIES (3) submission attempts, every attempt
\* but the last one made has failed, and no attempt follows a success; the k-th
\* failure is logged with the number k; a round that ends in success after n
\* attempts has logged attempts 1 .. n-1 and no abort; the loop aborts exactly
\* when three attempts have failed, having logged attempts 1, 2, 3 and then the
\* abort.
AttemptLines(n) == [k \in 1 .. n |-> <<"Attempt", k>>]

SubmissionRetriesBounded ==
    /\ [](/\ n_sends <= MAX_RETRIES
          /\ m_pc = "submit" => (n_sends = attempts /\ attempts < MAX_RETRIES)
          /\ m_pc = "sent" => n_sends = attempts + 1
          /\ m_pc \in {"submit", "sent"} => log = AttemptLines(attempts)
          /\ (m_pc = "fetch" /\ m_round > 0) =>
                (n_sends >= 1 /\ log = AttemptLines(n_sends - 1))
          /\ m_pc = "aborted" =>
                /\ n_sends = MAX_RETRIES
                /\ attempts = MAX_RETRIES
                /\ log = Append(AttemptLines(MAX_RETRIES), <<"Max retries reached", 0>>)
          /\ attempts = MAX_RETRIES => m_pc = "aborted")
    /\ [][n_sends' > n_sends => (m_pc = "submit" /\ n_sends' = n_sends + 1)]_vars

\* A round was completed by a submission that failed twice and then succeeded.
RetryThenSuccessWitness ==
    m_pc = "fetch" /\ m_round > 0 /\ n_sends = 3 /\ Len(log) = 2

\* C12: once the third attempt of a round has failed the loop has halted: no step
\* of it (fetch, cutoff, search, build, bus selection, submission) is possible any
\* more.  A submission that succeeds leads to the next round's fetch, which can
\* then be taken; and a round starts only from there, after the first round only
\* when the round before ended with a successful submission; rounds are numbered
\* one by one.
MineHaltsAfterAbort ==
    /\ [](m_pc = "aborted" => ~ENABLED MineNext)
    /\ []((m_pc = "fetch" /\ m_round < MaxRounds) => ENABLED FetchState)
    /\ [][(m_pc = "sent" /\ attempts' # attempts + 1) => m_pc' = "fetch"]_vars
    /\ [][m_round' # m_round =>
            /\ m_round' = m_round + 1
            /\ m_pc = "fetch"
            /\ m_round > 0 => (n_sends >= 1 /\ Len(log) = n_sends - 1)]_vars
    /\ [][n_fetch' # n_fetch => m_round' = m_round + 1]_vars

\* The second round was started after a success and has aborted.
AbortInLaterRoundWitness ==
    m_pc = "aborted" /\ m_round = 2 /\ n_sends = 3

\* C13: the reset instruction is in the round's list exactly when the clock read
\* is >= last_reset_at + EPOCH_DURATION - 5 and the number drawn is 0: never when
\* the draw fails, and never when the time condition does not hold.
HasReset == \E k \in 1 .. Len(ixs) : ixs[k] = ResetIx

Built == m_pc \in {"bus", "submit", "sent", "aborted"}

ResetOnlyWhenDue ==
    Built =>
        /\ HasReset <=> (/\ m_reset_clock >= m_last_reset_at + EPOCH_DURATION - 5
                         /\ m_draw = 0)
        /\ m_draw # 0 => ~HasReset
        /\ m_reset_clock < m_last_reset_at + EPOCH_DURATION - 5 => ~HasReset

\* The clock read was exactly last_reset_at + EPOCH_DURATION - 5, the draw
\* succeeded, and the list with the reset instruction is being submitted.
ResetAtBoundaryWitness ==
    /\ m_pc = "submit"
    /\ m_reset_clock = m_last_reset_at + EPOCH_DURATION - 5
    /\ m_draw = 0
    /\ HasReset

\* C18 as stated: the list holds an authorize instruction and exactly one mine
\* instruction, which carries the solution the round's search returned; a reset
\* instruction, when included, is the first of the list and the budget is 600000;
\* the budget is 500000 otherwise.
Assembled == m_pc \in {"submit", "sent", "aborted"}

MinePositions == {k \in 1 .. Len(ixs) : ixs[k][1] = "mine"}

ActionListResetFirst ==
    Assembled =>
        /\ \E k \in 1 .. Len(ixs) : ixs[k] = AuthIx
        /\ Cardinality(MinePositions) = 1
        /\ \A k \in MinePositions : ixs[k] = MineIx(m_bus, m_solution)
        /\ IF HasReset
           THEN ixs[1] = ResetIx /\ compute_budget = 600000
           ELSE compute_budget = 500000

\* C18 as amended: the list is authorize, mine without a reset and authorize,
\* reset, mine with one (the reset instruction follows the authorize instruction
\* and precedes the mine instruction); the mine instruction carries the solution
\* the round's search returned; the budget is 600000 with a reset and 500000
\* without.
ActionListResetSecond ==
    Assembled =>
        IF HasReset
        THEN /\ ixs = <<AuthIx, ResetIx, MineIx(m_bus, m_solution)>>
             /\ compute_budget = 600000
        ELSE /\ ixs = <<AuthIx, MineIx(m_bus, m_solution)>>
             /\ compute_budget = 500000

\* A list with a reset instruction and a solution other than the default is
\* being submitted.
ResetListWitness ==
    /\ m_pc = "sent"
    /\ HasReset
    /\ m_solution # <<DefaultHash, ZeroNonce>>
    /\ m_bus > 0

\* C20: within a round every send_and_confirm call is given the same instruction
\* list and the same budget, those built before the first attempt; between
\* attempts nothing the round fetched, found, drew or selected changes; and the
\* fetch, the search and the bus selection have each happened once per round
\* when the round is submitting.
RetriesSendSameRequest ==
    /\ [](/\ \A k \in 1 .. Len(sent) : sent[k] = sent[1]
          /\ Assembled =>
                /\ \A k \in 1 .. Len(sent) : sent[k] = <<ixs, compute_budget>>
                /\ Len(sent) = n_sends
                /\ n_fetch = m_round
                /\ n_search = m_round
                /\ n_bus = m_round)
    /\ [][(m_pc \in {"submit", "sent"} /\ m_pc' \in {"submit", "sent", "aborted"}) =>
            UNCHANGED <<ixs, compute_budget, m_solution, m_bus, m_draw,
                        m_should_reset, m_reset_clock, m_cutoff_time,
                        m_proof_last_hash_at, m_last_reset_at, m_last_hash_at,
                        n_fetch, n_search, n_bus>>]_vars

\* The third attempt of the second round was sent, with a reset instruction.
ThirdAttemptWitness ==
    m_pc = "sent" /\ Len(sent) = 3 /\ HasReset /\ m_round = 2

\* C14: no candidate is discarded.  A used thread's local best is the running
\* maximum of the difficulties of the nonces it has hashed successfully, held with
\* the first nonce that reached it and that nonce's hash; so every hash of
\* difficulty d >= min_difficulty the thread made leaves its local best >= d, also
\* at its exit, and the candidate find_hash_par returns has a difficulty >= d.
HashedOffsets(i) ==
    IF i >= cores \/ pc[i] = "spawned" THEN {}
    ELSE IF pc[i] = "loop" THEN 0 .. (nonce[i][2] - 1)
    ELSE 0 .. nonce[i][2]

Found(i) ==
    {k \in HashedOffsets(i) : HashOk(challenge, <<i, k>>)}

NoCandidateDiscarded ==
    \A i \in CoreIds :
        i < cores =>
          LET best == best_difficulty[i]
              first == best_nonce[i][2]
          IN /\ \A k \in Found(i) :
                   /\ Difficulty(challenge, <<i, k>>) <= best
                   /\ (Returned /\ Difficulty(challenge, <<i, k>>) >= min_difficulty) =>
                         join_difficulty >= Difficulty(challenge, <<i, k>>)
             /\ best > 0 =>
                   /\ first \in Found(i)
                   /\ Difficulty(challenge, <<i, first>>) = best
                   /\ \A k \in Found(i) :
                         k < first => Difficulty(challenge, <<i, k>>) < best
                   /\ best_nonce[i] = <<i, first>>
                   /\ best_hash[i] = <<challenge, i, first>>

\* A thread found a candidate meeting a positive min_difficulty, hashed on past a
\* later nonce of the same difficulty, and the search has returned.
KeptCandidateWitness ==
    /\ Returned
    /\ min_difficulty > 0
    /\ \E i \in CoreIds :
          /\ i < cores
          /\ best_difficulty[i] >= min_difficulty
          /\ \E k \in Found(i) :
                /\ k > best_nonce[i][2]
                /\ Difficulty(challenge, <<i, k>>) = best_difficulty[i]

\* C15: an iteration whose hash fails leaves the thread's local best (nonce,
\* difficulty, hash) and the shared best as they were, counts the hash, and does
\* not end the thread: off the sampling stride the nonce advances by 1 and the
\* thread hashes again, on the stride the thread goes to its deadline check, and a
\* check that does not break advances the nonce by 1.  Every counted iteration
\* moves its thread on.
Moved(i) == <<pc[i], nonce[i]>>' # <<pc[i], nonce[i]>>

FailedHashSkipped ==
    /\ [][\A i \in CoreIds :
            (pc[i] = "loop" /\ ~HashOk(challenge, nonce[i]) /\ Moved(i)) =>
               /\ best_nonce'[i] = best_nonce[i]
               /\ best_difficulty'[i] = best_difficulty[i]
               /\ best_hash'[i] = best_hash[i]
               /\ global_best_difficulty' = global_best_difficulty
               /\ global_total_hashes' = global_total_hashes + 1
               /\ pc'[i] # "done"
               /\ IF NonceMod100(nonce[i], cores) = 0
                  THEN pc'[i] = "check" /\ nonce'[i] = nonce[i]
                  ELSE pc'[i] = "loop" /\ nonce'[i] = <<nonce[i][1], nonce[i][2] + 1>>]_vars
    /\ [][\A i \in CoreIds :
            (pc[i] = "check_time" /\ pc'[i] = "loop") =>
               nonce'[i] = <<nonce[i][1], nonce[i][2] + 1>>]_vars
    /\ [][global_total_hashes' # global_total_hashes =>
            \E i \in CoreIds : Moved(i)]_vars

\* A thread is about to hash the nonce after one whose hash failed.
AfterFailedHashWitness ==
    \E i \in CoreIds :
        /\ i < cores
        /\ pc[i] = "loop"
        /\ nonce[i][2] > 0
        /\ ~HashOk(challenge, <<i, nonce[i][2] - 1>>)

\* C16 as stated: the reduction reads a thread's result only when every thread of
\* the round has terminated.
ReadAfterAllTerminated ==
    [][joined' # joined => \A i \in CoreIds : pc[i] = "done"]_vars

\* C16 as amended: the reduction reads each thread's result once, in handle
\* order, and only after that thread has terminated (other threads may still be
\* running); a result that was read does not change afterwards; and
\* find_hash_par returns only after every thread has terminated and was read.
ReadAfterOwnTermination ==
    /\ [][joined' # joined => (joined' = joined + 1 /\ pc[joined] = "done")]_vars
    /\ [](\A i \in CoreIds : i < joined => pc[i] = "done")
    /\ [][\A i \in CoreIds :
            pc[i] = "done" =>
               /\ pc'[i] = "done"
               /\ <<best_nonce[i], best_difficulty[i], best_hash[i]>>'
                     = <<best_nonce[i], best_difficulty[i], best_hash[i]>>]_vars
    /\ [](Returned => (joined = NumUnits /\ \A i \in CoreIds : pc[i] = "done"))

\* The first thread's result was read while the second thread is hashing.
ReadWhileOtherRunsWitness ==
    /\ joined = 1
    /\ join_difficulty > 0
    /\ pc[1] \in {"loop", "store", "add", "check", "check_time"}

\* C17: the candidate returned is a function of the threads' results alone: that
\* of the lowest-numbered thread whose difficulty is the largest (the zero
\* candidate when that is an unused thread or no thread has a positive
\* difficulty), in whatever order the threads finished.
Result(i) ==
    IF i >= cores THEN ZeroCandidate
    ELSE <<best_nonce[i], best_difficulty[i], best_hash[i]>>

Winner ==
    CHOOSE i \in CoreIds :
        /\ \A j \in CoreIds : Result(j)[2] <= Result(i)[2]
        /\ \A j \in CoreIds : Result(j)[2] = Result(i)[2] => i <= j

ReductionDeterministic ==
    Returned =>
        /\ <<join_nonce, join_difficulty, join_hash>> = Result(Winner)
        /\ solution = <<Result(Winner)[3], Result(Winner)[1]>>

\* Two threads returned the same positive difficulty with different nonces, and
\* the search has returned.
TieWitness ==
    /\ Returned
    /\ \A i \in CoreIds : i < cores
    /\ best_difficulty[0] > 0
    /\ best_difficulty[1] = best_difficulty[0]
    /\ best_nonce[1] # best_nonce[0]

\* C19: the shared best is 0 or the difficulty of a hash some used thread has
\* made, so it never exceeds the largest local best; a used thread that has left
\* its loop implies a thread whose local best is >= min_difficulty; and when at
\* least one thread was used the candidate returned has a difficulty >=
\* min_difficulty.
ReturnedMeetsMinimum ==
    /\ \E i \in CoreIds : global_best_difficulty <= best_difficulty[i]
    /\ \/ global_best_difficulty = 0
       \/ \E i \in CoreIds : \E k \in Found(i) :
             Difficulty(challenge, <<i, k>>) = global_best_difficulty
    /\ \A i \in CoreIds :
          (i < cores /\ pc[i] = "done") =>
             \E j \in CoreIds : j < cores /\ best_difficulty[j] >= min_difficulty
    /\ (Returned /\ cores > 0) => join_difficulty >= min_difficulty

\* The search returned a candidate above a positive min_difficulty while the
\* shared best, after a lost update, holds less than the returned difficulty.
LostUpdateReturnWitness ==
    /\ Returned
    /\ cores > 0
    /\ min_difficulty > 0
    /\ global_best_difficulty < join_difficulty

====
